---------------------------- MODULE Spec2Model ----------------------------
(***************************************************************************)
(* Model of the asset assignment / submission workflow of the resource     *)
(* pack maker cog (src/__init__.py).                                       *)
(*                                                                         *)
(* One pack (one manager message) is modelled.  The bot is one asyncio     *)
(* event loop: a handler runs without interruption from one `await` that   *)
(* really suspends to the next, so every action below is the code between  *)
(* two suspension points.  sqlite3 calls are synchronous and so belong to  *)
(* the step they occur in.  A process crash may additionally cut a step    *)
(* between two of its statements.                                          *)
(***************************************************************************)
EXTENDS Naturals, FiniteSets, Sequences, Bags, TLC

\* ------------------------------------------------------------------ bounds
\* The volunteers, and the handlers (claim requests and submissions) that
\* run at the same time.
NumUsers == 2
MaxTasks == 2
\* The largest side of an original image and of an uploaded image.
MaxOriginal == 3
MaxUploaded == 7

Users == 1..NumUsers

\* --------------------------------------------------------- the asset tree
\* Relative paths a source bundle may hold.  Each stands for one file of the
\* extracted tree; its attributes are what the catalog functions look at.
Paths == {"assets/minecraft/textures/a.png",
          "assets/minecraft/textures/b.png",
          "assets/minecraft/sounds/c.ogg",
          "assets/minecraft/models/m.json",
          "assets/realms/textures/r.png"}

suffix(p) ==
    CASE p = "assets/minecraft/textures/a.png" -> ".png"
      [] p = "assets/minecraft/textures/b.png" -> ".png"
      [] p = "assets/minecraft/sounds/c.ogg"   -> ".ogg"
      [] p = "assets/minecraft/models/m.json"  -> ".json"
      [] p = "assets/realms/textures/r.png"    -> ".png"

\* Whether the path lies under <root>/assets/minecraft.
under_minecraft(p) == p # "assets/realms/textures/r.png"

\* The bundles the model is run on: two textures; a texture and a sound; a
\* texture beside a model definition; a texture beside a realms texture; a
\* bundle without assets/minecraft.
Packs == {{"assets/minecraft/textures/a.png", "assets/minecraft/textures/b.png"},
          {"assets/minecraft/textures/a.png", "assets/minecraft/sounds/c.ogg"},
          {"assets/minecraft/textures/a.png", "assets/minecraft/models/m.json"},
          {"assets/minecraft/textures/a.png", "assets/realms/textures/r.png"},
          {"assets/realms/textures/r.png"}}

NoPath == "-"
NoUser == 0

Kinds == {"texture", "sound"}

\* What a volunteer may attach to a reply: the declared content type and
\* whether the bytes decode.
Uploads == {"image", "image_small", "image_undecodable", "audio", "audio_undecodable",
            "other"}

VARIABLES
    image,            \* process_image: [pc, ox, oy, x, y, tx, ty], the sizes of the
                      \* original and of the upload, and the target size
    provision,        \* make_resource_pack: [pc, root, zip], its position, whether
                      \* the pack root exists, the state of pack.zip
    pack,             \* the files of the bundle of the requested version
    original_assets,  \* path -> "file" | "absent", the original_assets tree
    new_assets,       \* path -> "file" | "absent", the new_assets tree
    assigned_files,   \* rows [user_id, file_path] of table assigned_files
    delivered,        \* user -> paths of the "File assigned" DMs they hold
    claims,           \* user -> the user's running claim handler
    submits,          \* bag of the running submit_file handlers [pc, user, path]
    manager_message,  \* [content, view, archives] of the manager message
    last              \* the step taken last and what it answered

vars == <<image, provision, pack, original_assets, new_assets, assigned_files, delivered,
          claims, submits, manager_message, last>>

IdleClaim == [pc |-> "idle", kind |-> "-", file |-> NoPath, race |-> NoPath]

Event(op, user, path, result) ==
    [op |-> op, user |-> user, path |-> path, result |-> result, upload |-> "-"]

\* The event of a step of save_uploaded_file, with what was uploaded.
SaveEvent(user, path, upload, result) ==
    [op |-> "save", user |-> user, path |-> path, result |-> result, upload |-> upload]

\* ------------------------------------------------------------ AssetCatalog
get_resources(tree) == {p \in DOMAIN tree : tree[p] = "file"}

get_sounds(tree) == {p \in get_resources(tree) : suffix(p) = ".ogg"}

\* unlink() removes files only, so the directory assets/minecraft exists
\* exactly when the bundle had a file below it.
minecraft_is_dir == \E p \in pack : under_minecraft(p)

get_textures(tree) ==
    {p \in get_resources(tree) :
        /\ minecraft_is_dir => under_minecraft(p)
        /\ suffix(p) = ".png"}

\* `"models" in path.parents` compares a str with Path objects: never true.
get_models(tree) ==
    {p \in get_resources(tree) : suffix(p) = ".json" /\ FALSE}

\* --------------------------------------------------------- AssignmentStore
\* SELECT user_id FROM assigned_files WHERE file_path = ?  (fetchone)
select_user_id(table, path) ==
    IF \E r \in table : r.file_path = path
    THEN (CHOOSE r \in table : r.file_path = path).user_id
    ELSE NoUser

\* A plain INSERT into a table without the PRIMARY KEY.
insert_plain(table, user, path) ==
    table \cup {[user_id |-> user, file_path |-> path]}

\* INSERT OR IGNORE: the row of a user who has one stays.
insert_or_ignore(table, user, path) ==
    IF \E r \in table : r.user_id = user
    THEN table
    ELSE table \cup {[user_id |-> user, file_path |-> path]}

\* INSERT OR REPLACE with user_id the PRIMARY KEY
insert_or_replace(table, user, path) ==
    {r \in table : r.user_id # user} \cup {[user_id |-> user, file_path |-> path]}

\* DELETE FROM assigned_files WHERE file_path = ?
delete_file_path(table, path) == {r \in table : r.file_path # path}

\* The filter without the subtraction of the taken files.
not_taken_unfiltered(resource_gen, table) == resource_gen

\* SELECT file_path FROM assigned_files, then the filter of not_taken
not_taken(resource_gen, table) ==
    {p \in resource_gen : p \notin {r.file_path : r \in table}}


\* --------------------------------------------------------- MediaNormalizer
\* The if/else of process_image.  new_x and new_y become rationals there
\* (`/` is true division): each is kept as numerator and denominator,
\* <<new_x num, new_x den, new_y num, new_y den>>.
\* The branch taken with the comparison turned round.
fitted_to_larger(ox, oy, x, y) ==
    IF x * oy < y * ox
    THEN <<y * ox, oy, y, 1>>
    ELSE <<x, 1, x * oy, ox>>

\* if new_x / original_x > new_y / original_y:
\*     new_x = new_y * original_x / original_y
\* else:
\*     new_y = new_x * original_y / original_x
fitted(ox, oy, x, y) ==
    IF x * oy > y * ox
    THEN <<y * ox, oy, y, 1>>
    ELSE <<x, 1, x * oy, ox>>

\* round(new // original) without the multiplication.
snapped_unscaled(num, den, original) == num \div (den * original)

\* round(new) * original, without the floor division.
snapped_undivided(num, den, original) == (num \div den) * original

\* round(new // original) * original; `//` floors, so round changes nothing.
snapped(num, den, original) == (num \div (den * original)) * original

\* The size process_image resizes the upload to.
target_size(ox, oy, x, y) ==
    LET new == fitted(ox, oy, x, y)
    IN <<snapped(new[1], new[2], ox), snapped(new[3], new[4], oy)>>

\* A resize that takes an empty size.
resizes_any(size) == TRUE

\* img.resize((new_x, new_y)): Pillow raises ValueError("height and width
\* must be > 0") for a side below 1.
resizes(size) == size[1] >= 1 /\ size[2] >= 1

IdleImage == [pc |-> "idle", ox |-> 1, oy |-> 1, x |-> 1, y |-> 1, tx |-> 0, ty |-> 0]

\* ------------------------------------------------------------------- Init
\* make_resource_pack has sent "Creating resource pack..." and awaits the
\* response for the bundle; nothing of the pack exists.
Quiet ==
    /\ provision = [pc |-> "requested", root |-> FALSE, zip |-> "absent"]
    /\ pack \in Packs
    /\ original_assets = [p \in Paths |-> "absent"]
    /\ new_assets = [p \in Paths |-> "absent"]
    /\ assigned_files = {}
    /\ delivered = [u \in Users |-> {}]
    /\ claims = [u \in Users |-> IdleClaim]
    /\ submits = EmptyBag
    /\ manager_message =
          [content |-> "Creating resource pack...", view |-> FALSE, archives |-> 0]
    /\ last = Event("init", NoUser, NoPath, "-")

Init == Quiet /\ image = IdleImage

\* ----------------------------------------------------------- provisioning
Handlers == <<image, assigned_files, delivered, claims, submits, new_assets>>

\* The response arrives.  A status other than 200 ends the command with the
\* edit "Failed to create resource pack."; otherwise the pack root is made
\* and pack.zip opened for writing.
Respond(ok) ==
    /\ provision.pc = "requested"
    /\ IF ok
       THEN /\ provision' = [pc |-> "downloading", root |-> TRUE, zip |-> "partial"]
            /\ last' = Event("respond", NoUser, NoPath, "200")
            /\ UNCHANGED manager_message
       ELSE /\ provision' = [provision EXCEPT !.pc = "failed"]
            /\ manager_message' =
                  [manager_message EXCEPT !.content = "Failed to create resource pack."]
            /\ last' = Event("respond", NoUser, NoPath, "failed")
    /\ UNCHANGED <<pack, original_assets, Handlers>>

\* response.content.read returns the empty chunk: the body is written.
DownloadDone ==
    /\ provision.pc = "downloading"
    /\ provision' = [provision EXCEPT !.pc = "extracting", !.zip = "complete"]
    /\ last' = Event("download", NoUser, NoPath, "complete")
    /\ UNCHANGED <<pack, original_assets, manager_message, Handlers>>

\* ClientTimeout(total=60 * 20) expires while the request or the read of the
\* body is awaited: asyncio.TimeoutError leaves the command; no handler of
\* make_resource_pack catches it or removes what was written.
Timeout ==
    /\ provision.pc \in {"requested", "downloading"}
    /\ provision' = [provision EXCEPT !.pc = "raised"]
    /\ last' = Event("timeout", NoUser, NoPath, "raised")
    /\ UNCHANGED <<pack, original_assets, manager_message, Handlers>>

\* save_version_assets: the bundle is extracted to original_assets.
Extract ==
    /\ provision.pc = "extracting"
    /\ original_assets' = [p \in Paths |-> IF p \in pack THEN "file" ELSE "absent"]
    /\ provision' = [provision EXCEPT !.pc = "extracted"]
    /\ last' = Event("extract", NoUser, NoPath, "-")
    /\ UNCHANGED <<pack, manager_message, Handlers>>

\* message.edit(content="Resource pack created.", view=view)
Publish ==
    /\ provision.pc = "extracted"
    /\ manager_message' =
          [manager_message EXCEPT !.content = "Resource pack created.", !.view = TRUE]
    /\ provision' = [provision EXCEPT !.pc = "created"]
    /\ last' = Event("publish", NoUser, NoPath, "-")
    /\ UNCHANGED <<pack, original_assets, Handlers>>

\* The handlers in flight; the model runs at most MaxTasks at a time.
InFlight ==
    Cardinality({u \in Users : claims[u].pc # "idle"})
      + BagCardinality(submits)

\* ----------------------------------------------------------- claim request
\* get_random_texture / get_random_sound up to `await response.defer(...)`.
\* The buttons exist once the view has been put on the manager message.
ClaimPress(u, kind) ==
    /\ manager_message.content # "Creating resource pack..."
    /\ manager_message.content # "Failed to create resource pack."
    /\ InFlight < MaxTasks
    /\ claims[u].pc = "idle"
    /\ claims' = [claims EXCEPT ![u] = [IdleClaim EXCEPT !.pc = "deferred", !.kind = kind]]
    /\ last' = Event("press", NoUser, NoPath, "-")
    /\ UNCHANGED <<image, provision, pack, original_assets, new_assets, assigned_files, delivered,
                   submits, manager_message>>

\* The candidate set of a claim request of the given kind.
available(kind, tree, table) ==
    IF kind = "texture"
    THEN not_taken(get_textures(tree), table)
    ELSE not_taken(get_sounds(tree), table)

\* History only: the requests of the same kind still deferred when `u` takes
\* the single candidate `f` have raced for `f` and lost.
lose_race(cl, u, kind, f, avail) ==
    [v \in Users |->
        IF v # u /\ cl[v].pc = "deferred" /\ cl[v].kind = kind /\ avail = {f}
        THEN [cl[v] EXCEPT !.race = f]
        ELSE cl[v]]

\* From the return of defer() to the first suspension of assign_file: the
\* candidate set, random.choice, and assign_file's SELECT / INSERT OR REPLACE
\* / commit.  No await lies between them.
ClaimAssign(u) ==
    /\ claims[u].pc = "deferred"
    /\ LET kind == claims[u].kind
           avail == available(kind, original_assets, assigned_files)
       IN IF avail = {}
          THEN /\ claims' = [claims EXCEPT ![u] = IdleClaim]
               /\ last' = Event("claim", u, NoPath, "none_available")
               /\ UNCHANGED assigned_files
          ELSE \E f \in avail :
                 IF select_user_id(assigned_files, f) # NoUser
                 THEN \* raise RuntimeError("File already assigned to ...")
                      /\ claims' = [claims EXCEPT ![u] = IdleClaim]
                      /\ last' = Event("claim", u, f, "already_assigned")
                      /\ UNCHANGED assigned_files
                 ELSE /\ assigned_files' = insert_or_replace(assigned_files, u, f)
                      /\ claims' = [lose_race(claims, u, kind, f, avail) EXCEPT
                                      ![u] = [claims[u] EXCEPT !.pc = "assigned", !.file = f]]
                      /\ last' = Event("claim", u, f, "assigned")
    /\ UNCHANGED <<image, provision, pack, original_assets, new_assets, delivered, submits,
                   manager_message>>

\* The rest of assign_file: read the original, DM it to the user.
\* `forbidden` is whether user.send raises discord.Forbidden.
ClaimDeliver(u, forbidden) ==
    /\ claims[u].pc = "assigned"
    /\ LET f == claims[u].file
       IN IF original_assets[f] # "file"
          THEN \* aiofiles.open raises FileNotFoundError
               /\ last' = Event("deliver", u, f, "file_missing")
               /\ UNCHANGED delivered
          ELSE IF forbidden
          THEN /\ last' = Event("deliver", u, f, "forbidden")
               /\ UNCHANGED delivered
          ELSE /\ delivered' = [delivered EXCEPT ![u] = @ \cup {f}]
               /\ last' = Event("deliver", u, f, "sent")
    /\ claims' = [claims EXCEPT ![u] = IdleClaim]
    /\ UNCHANGED <<image, provision, pack, original_assets, new_assets, assigned_files, submits,
                   manager_message>>

\* -------------------------------------------------------------- submission
\* The check without the comparison of the claimant with the author.
assigned_to_anyone(table, user, path) == select_user_id(table, path) # NoUser

\* submit_file's check that the user still has the file assigned.
still_assigned(table, user, path) ==
    LET result == select_user_id(table, path)
    IN ~(result = NoUser \/ result # user)

\* A handler moves on to `pc`, or ends.
Moved(bag, h, pc) == (bag (-) SetToBag({h})) (+) SetToBag({[h EXCEPT !.pc = pc]})
Ended(bag, h) == bag (-) SetToBag({h})

\* on_message for a reply with an attachment to the DM that assigned `p`
\* to `u`, up to the ownership check of submit_file.  on_message does
\* nothing observable before it.
SubmitCheck(u, p) ==
    /\ InFlight < MaxTasks
    /\ p \in delivered[u]
    /\ IF still_assigned(assigned_files, u, p)
       THEN /\ submits' = submits (+) SetToBag({[pc |-> "saving", user |-> u, path |-> p]})
            /\ last' = Event("submit", u, p, "checked")
       ELSE \* "This file is no longer assigned to you."
            /\ last' = Event("submit", u, p, "not_assigned")
            /\ UNCHANGED submits
    /\ UNCHANGED <<image, provision, pack, original_assets, new_assets, assigned_files, delivered,
                   claims, manager_message>>

\* img.size of the original at original_path: the textures of the bundle
\* are 2 by 2.
original_size(path) == <<2, 2>>

\* img.size of the decoded upload: "image" is larger than the original on
\* both axes, "image_small" is narrower than the original.
uploaded_size(upload) == IF upload = "image_small" THEN <<1, 3>> ELSE <<4, 3>>

\* A dispatch without the final `raise ValueError("Invalid file type")`.
processed_any_type(upload, path, tree) ==
    CASE upload \in {"image", "image_small"} ->
              /\ tree[path] = "file" /\ suffix(path) = ".png"
              /\ resizes(target_size(original_size(path)[1], original_size(path)[2],
                                     uploaded_size(upload)[1], uploaded_size(upload)[2]))
      [] upload = "audio" -> TRUE
      [] upload = "other" -> TRUE
      [] OTHER -> FALSE

\* Whether save_uploaded_file gets past the transform: the declared content
\* type selects it, process_image opens the original with PIL and decodes the
\* upload, process_sound decodes the upload.
processed(upload, path, tree) ==
    CASE upload \in {"image", "image_small"} ->
              /\ tree[path] = "file" /\ suffix(path) = ".png"
              /\ resizes(target_size(original_size(path)[1], original_size(path)[2],
                                     uploaded_size(upload)[1], uploaded_size(upload)[2]))
      [] upload = "audio" -> TRUE
      [] OTHER -> FALSE

\* A write that does not land at new_path.
write_lost(tree, path) == tree

\* new_path.parent.mkdir; aiofiles.open(new_path, "wb"); write
write_file(tree, path) == [tree EXCEPT ![path] = "file"]

\* An unlink that leaves the original in place.
unlink_skipped(tree, path) == tree

\* if original_path.is_file(): original_path.unlink()
unlink_file(tree, path) ==
    IF tree[path] = "file" THEN [tree EXCEPT ![path] = "absent"] ELSE tree

\* save_uploaded_file up to the end of the write of the new asset.  Reading
\* the attachment and the transform have no effect of their own.
SubmitSave(h, upload) ==
    /\ BagIn(h, submits)
    /\ h.pc = "saving"
    /\ IF processed(upload, h.path, original_assets)
       THEN /\ new_assets' = write_file(new_assets, h.path)
            /\ submits' = Moved(submits, h, "written")
            /\ last' = SaveEvent(h.user, h.path, upload, "written")
       ELSE \* "Failed to submit file: ..."; finally: db_con.close()
            /\ submits' = Ended(submits, h)
            /\ last' = SaveEvent(h.user, h.path, upload, "failed")
            /\ UNCHANGED new_assets
    /\ UNCHANGED <<image, provision, pack, original_assets, assigned_files, delivered, claims,
                   manager_message>>

\* After the file is closed: unlink the original, DELETE the row, commit.
SubmitFinish(h) ==
    /\ BagIn(h, submits)
    /\ h.pc = "written"
    /\ original_assets' = unlink_file(original_assets, h.path)
    /\ assigned_files' = delete_file_path(assigned_files, h.path)
    /\ last' = Event("finish", h.user, h.path, "submitted")
    /\ submits' = Moved(submits, h, "submitted")
    /\ UNCHANGED <<image, provision, pack, new_assets, delivered, claims, manager_message>>

\* The completion check with the `not` left out.
pack_unfinished(tree) == get_resources(tree) # {}

\* `not tuple(get_resources(original_root))`
pack_finished(tree) == get_resources(tree) = {}

\* After the reply "File submitted.": the completion check and, when it
\* succeeds, create_final_zip and the edit of the manager message.
SubmitComplete(h) ==
    /\ BagIn(h, submits)
    /\ h.pc = "submitted"
    /\ IF pack_finished(original_assets)
       THEN /\ manager_message' = [content |-> "Resource pack ready.", view |-> FALSE,
                                   archives |-> manager_message.archives + 1]
            /\ last' = Event("complete", h.user, h.path, "archive")
       ELSE /\ last' = Event("complete", h.user, h.path, "incomplete")
            /\ UNCHANGED manager_message
    /\ submits' = Ended(submits, h)
    /\ UNCHANGED <<image, provision, pack, original_assets, new_assets, assigned_files, delivered, claims>>

\* ------------------------------------------------------------------ crash
Running ==
    \/ \E u \in Users : claims[u].pc # "idle"
    \/ submits # EmptyBag

\* The process dies at a suspension point and is started again: every
\* handler is gone, the files, the table and the messages stay.
Crash ==
    /\ Running
    /\ claims' = [u \in Users |-> IdleClaim]
    /\ submits' = EmptyBag
    /\ last' = Event("crash", NoUser, NoPath, "-")
    /\ UNCHANGED <<image, provision, pack, original_assets, new_assets, assigned_files, delivered,
                   manager_message>>

\* The process dies inside SubmitFinish, after unlink() and before the
\* DELETE is committed.
CrashInFinish(h) ==
    /\ BagIn(h, submits)
    /\ h.pc = "written"
    /\ original_assets[h.path] = "file"
    /\ original_assets' = unlink_file(original_assets, h.path)
    /\ claims' = [u \in Users |-> IdleClaim]
    /\ submits' = EmptyBag
    /\ last' = Event("crash", NoUser, NoPath, "-")
    /\ UNCHANGED <<image, provision, pack, new_assets, assigned_files, delivered, manager_message>>

\* ------------------------------------------------------------------- Next
Next ==
    \/ \E ok \in BOOLEAN : Respond(ok)
    \/ DownloadDone
    \/ Timeout
    \/ Extract
    \/ Publish
    \/ \E u \in Users, kind \in Kinds : ClaimPress(u, kind)
    \/ \E u \in Users : ClaimAssign(u)
    \/ \E u \in Users, forbidden \in BOOLEAN : ClaimDeliver(u, forbidden)
    \/ \E u \in Users, p \in Paths : SubmitCheck(u, p)
    \/ \E h \in BagToSet(submits), upload \in Uploads : SubmitSave(h, upload)
    \/ \E h \in BagToSet(submits) : SubmitFinish(h)
    \/ \E h \in BagToSet(submits) : SubmitComplete(h)
    \/ Crash
    \/ \E h \in BagToSet(submits) : CrashInFinish(h)

Spec == Init /\ [][Next]_vars

\* ------------------------------------------------------ a pack at work
\* The bundles all of whose files a claim request can hand out: textures
\* (below assets/minecraft when the bundle has that directory) and sounds.
GoodPacks ==
    {P \in Packs :
        \A p \in P : /\ suffix(p) \in {".png", ".ogg"}
                     /\ (\E q \in P : under_minecraft(q)) => under_minecraft(p)}

InitFair == Init /\ pack \in GoodPacks

\* The upload of a volunteer who sends a replacement of the asset's type.
valid_upload(path) == IF suffix(path) = ".png" THEN "image" ELSE "audio"

\* A submission that passes the ownership check.
SubmitAccepted(u, p) == still_assigned(assigned_files, u, p) /\ SubmitCheck(u, p)

\* The download succeeds, the DMs arrive, the uploads are of the right type
\* and size, and the process stays up.
NextFair ==
    \/ Respond(TRUE)
    \/ DownloadDone
    \/ Extract
    \/ Publish
    \/ \E u \in Users, kind \in Kinds : ClaimPress(u, kind)
    \/ \E u \in Users : ClaimAssign(u)
    \/ \E u \in Users : ClaimDeliver(u, FALSE)
    \/ \E u \in Users, p \in Paths : SubmitCheck(u, p)
    \/ \E h \in BagToSet(submits) : SubmitSave(h, valid_upload(h.path))
    \/ \E h \in BagToSet(submits) : SubmitFinish(h)
    \/ \E h \in BagToSet(submits) : SubmitComplete(h)

\* The event loop resumes every coroutine whose await has completed (weak
\* fairness of the handler steps); the volunteers keep pressing both buttons
\* and keep replying to the files they hold (strong fairness: a press or a
\* reply can be held back while MaxTasks handlers run).
Fairness ==
    /\ WF_vars(Respond(TRUE))
    /\ WF_vars(DownloadDone)
    /\ WF_vars(Extract)
    /\ WF_vars(Publish)
    /\ \A u \in Users : WF_vars(ClaimAssign(u))
    /\ \A u \in Users : WF_vars(ClaimDeliver(u, FALSE))
    /\ WF_vars(\E h \in BagToSet(submits) : SubmitSave(h, valid_upload(h.path)))
    /\ WF_vars(\E h \in BagToSet(submits) : SubmitFinish(h))
    /\ WF_vars(\E h \in BagToSet(submits) : SubmitComplete(h))
    /\ \A kind \in Kinds : SF_vars(\E u \in Users : ClaimPress(u, kind))
    /\ SF_vars(\E u \in Users, p \in Paths : SubmitAccepted(u, p))

SpecFair == InitFair /\ [][NextFair]_vars /\ Fairness

\* ------------------------------------------------------- process_image
\* process_image alone, on every original and uploaded size in the bounds.
InitImage ==
    /\ Quiet
    /\ pack = {"assets/minecraft/textures/a.png", "assets/minecraft/textures/b.png"}
    /\ \E ox \in 1..MaxOriginal, oy \in 1..MaxOriginal,
          x \in 1..MaxUploaded, y \in 1..MaxUploaded :
            image = [pc |-> "opened", ox |-> ox, oy |-> oy, x |-> x, y |-> y,
                     tx |-> 0, ty |-> 0]

Rest == <<provision, pack, original_assets, new_assets, assigned_files,
          delivered, claims, submits, manager_message, last>>

\* Lines 76-81: the target size.
ImageSize ==
    /\ image.pc = "opened"
    /\ LET t == target_size(image.ox, image.oy, image.x, image.y)
       IN image' = [image EXCEPT !.pc = "sized", !.tx = t[1], !.ty = t[2]]
    /\ UNCHANGED Rest

\* Lines 82-87: the resize and the encoding, or the ValueError of resize.
ImageResize ==
    /\ image.pc = "sized"
    /\ image' = [image EXCEPT !.pc = IF resizes(<<image.tx, image.ty>>)
                                    THEN "converted" ELSE "raised"]
    /\ UNCHANGED Rest

NextImage == ImageSize \/ ImageResize

SpecImage == InitImage /\ [][NextImage]_vars

\* ------------------------------------------------------------------ claims

\* C1: when several claim requests run concurrently against a pack with
\* exactly one remaining candidate asset, the request that takes it is the
\* only one to end with a record, and every request that was deferred at
\* that moment (claims[u].race names the asset) reports unavailability.
C1_RaceLosersReportUnavailable ==
    [][\A u \in Users :
         (claims[u].race # NoPath /\ last'.op = "claim" /\ last'.user = u
            /\ claims[u].pc = "deferred" /\ claims'[u].pc # "deferred")
         => last'.result = "none_available"]_vars

\* C2: in every reachable state of the assignment store each asset_path
\* appears in at most one record and each user_id appears in at most one
\* record.
C2_OneRecordPerAssetAndUser ==
    \A r1 \in assigned_files, r2 \in assigned_files :
        (r1.file_path = r2.file_path \/ r1.user_id = r2.user_id) => r1 = r2

\* A user who held a record on one asset has been assigned another one: the
\* table holds the new record and none for the asset held before.
C2_Witness ==
    /\ last.op = "claim" /\ last.result = "assigned"
    /\ [user_id |-> last.user, file_path |-> last.path] \in assigned_files
    /\ \E p \in delivered[last.user] :
          /\ p # last.path
          /\ original_assets[p] = "file"
          /\ select_user_id(assigned_files, p) = NoUser

\* C3: if delivery of a claimed asset fails (the user cannot be messaged) the
\* claim is rolled back: no record references the asset and it is in the
\* candidate set of the next claim request.
C3_FailedDeliveryReleasesClaim ==
    (last.op = "deliver" /\ last.result = "forbidden")
    => /\ select_user_id(assigned_files, last.path) = NoUser
       /\ last.path \in available("texture", original_assets, assigned_files)
                          \cup available("sound", original_assets, assigned_files)

\* C4: a submission for an asset path from a user who is not the current
\* claimant of that path (no record, or a record held by another user) is
\* rejected and leaves original_assets, new_assets and the store unchanged;
\* no handler goes on to the save.
C4_ForeignSubmissionRejected ==
    [][(/\ last'.op = "submit"
        /\ [user_id |-> last'.user, file_path |-> last'.path] \notin assigned_files)
       => /\ last'.result = "not_assigned"
          /\ UNCHANGED <<original_assets, new_assets, assigned_files, submits>>]_vars

\* A user's reply for an asset that another user holds by now was rejected.
C4_Witness ==
    /\ last.op = "submit" /\ last.result = "not_assigned"
    /\ select_user_id(assigned_files, last.path) \notin {NoUser, last.user}

\* C5 as stated: a crash between two of the effects of an accepted
\* submission (write the new asset, delete the original, release the record)
\* cannot leave the store holding a claim on an asset path whose original
\* file no longer exists.
C5_NoClaimWithoutOriginal ==
    \A r \in assigned_files : original_assets[r.file_path] = "file"

\* C5 (amended): the effects are applied in the order write, delete,
\* release, so a crash between two of them cannot leave the store holding a
\* claim on an asset path that has neither its original file nor a written
\* replacement.
C5_ClaimedAssetKeepsAFile ==
    \A r \in assigned_files :
        original_assets[r.file_path] = "file" \/ new_assets[r.file_path] = "file"

\* The process died between the delete and the release: the claim is stale,
\* the replacement is in new_assets.
C5_Witness ==
    /\ last.op = "crash"
    /\ \E r \in assigned_files :
          original_assets[r.file_path] = "absent" /\ new_assets[r.file_path] = "file"

\* The files a claim request hands out: the textures and the sounds.
Distributable(tree) == get_textures(tree) \cup get_sounds(tree)

\* C6: after every accepted submission the pack is judged complete (and the
\* archive assembled) if and only if original_assets holds no texture and no
\* sound file; files of other kinds do not count as remaining.
C6_CompleteIffNoDistributableLeft ==
    last.op = "complete"
    => (last.result = "archive" <=> Distributable(original_assets) = {})

\* The handlers past the ownership check and before the end of their write /
\* delete / release phase, for the path.
InMutation(p) == {h \in BagToSet(submits) : h.path = p /\ h.pc \in {"saving", "written"}}

\* C7: two submissions are never both past the ownership check, in their
\* write / delete / release phase, for the same asset path.
C7_OneSubmissionPerPath ==
    \A p \in Paths :
        /\ Cardinality(InMutation(p)) <= 1
        /\ \A h \in InMutation(p) : CopiesIn(h, submits) = 1

BadUploads == {"image_undecodable", "audio_undecodable", "other"}

\* C8: when the normalization of a submission by the claimant fails
\* (undecodable media, unsupported declared media type) the submission is
\* rejected, the store is unchanged and neither tree is modified.
C8_FailedNormalizationKeepsClaim ==
    [][(last'.op = "save" /\ last'.upload \in BadUploads)
       => /\ last'.result = "failed"
          /\ UNCHANGED <<assigned_files, original_assets, new_assets>>]_vars

\* The claimant's undecodable or unsupported upload was rejected and the
\* claimant still holds the record.
C8_Witness ==
    /\ last.op = "save" /\ last.result = "failed" /\ last.upload \in BadUploads
    /\ [user_id |-> last.user, file_path |-> last.path] \in assigned_files
    /\ original_assets[last.path] = "file"
    /\ new_assets[last.path] = "absent"

\* C9: completed is terminal: once the archive is produced the manager
\* message keeps saying so without the view, and no claim request creates an
\* assignment record.
C9_CompletedIsTerminal ==
    [][manager_message.archives > 0
       => /\ manager_message'.archives >= manager_message.archives
          /\ manager_message'.view = FALSE
          /\ manager_message'.content = "Resource pack ready."
          /\ assigned_files' \subseteq assigned_files]_vars

\* A claim request was served after the archive was produced.
C9_Witness ==
    /\ manager_message.archives > 0
    /\ last.op = "claim" /\ last.result = "none_available"

\* The candidate set of the design: the assets of the requested kind (a
\* texture is a .png, below assets/minecraft when the bundle has it; a sound
\* is an .ogg) whose original file is present and which no record references.
Candidates(kind) ==
    {p \in Paths :
        /\ original_assets[p] = "file"
        /\ IF kind = "texture"
           THEN suffix(p) = ".png" /\ (minecraft_is_dir => under_minecraft(p))
           ELSE suffix(p) = ".ogg"
        /\ \A r \in assigned_files : r.file_path # p}

\* C10: a claim request assigns only an asset of the requested kind whose
\* original file is present and which no record references when the claim
\* is written; when there is no such candidate it reports none available
\* and changes no state.
C10_ClaimsOnlyCandidates ==
    [][last'.op = "claim"
       => LET u == last'.user
              kind == claims[u].kind
          IN IF Candidates(kind) = {}
             THEN /\ last'.result = "none_available"
                  /\ UNCHANGED <<assigned_files, original_assets, new_assets,
                                 delivered, manager_message>>
             ELSE /\ last'.result = "assigned"
                  /\ last'.path \in Candidates(kind)
                  /\ [user_id |-> u, file_path |-> last'.path] \in assigned_files']_vars

\* A request was assigned a candidate while another user held the other
\* asset of that kind.
C10_Witness ==
    /\ last.op = "claim" /\ last.result = "assigned"
    /\ [user_id |-> last.user, file_path |-> last.path] \in assigned_files
    /\ \E r \in assigned_files :
          /\ r.user_id # last.user
          /\ r.file_path # last.path
          /\ suffix(r.file_path) = suffix(last.path)

\* C11: when the download of the source bundle times out or returns a
\* non-success status, the pack never becomes claimable, the operation is
\* reported as failed (the edit of the message, or the error raised to the
\* command framework), and no pack root and no partial file is left behind.
C11_FailedDownloadLeavesNothing ==
    provision.pc \in {"failed", "raised"}
    => /\ manager_message.view = FALSE
       /\ manager_message.content # "Resource pack created."
       /\ provision.root = FALSE
       /\ provision.zip = "absent"
       /\ get_resources(original_assets) = {}

\* C12: for every original size and every uploaded size, the width of the
\* target size is an integer multiple of the original's width and the height
\* an integer multiple of the original's height.
C12_TargetTilesOriginal ==
    image.pc \in {"sized", "converted", "raised"}
    => /\ \E m \in 0..MaxUploaded : image.tx = m * image.ox
       /\ \E m \in 0..MaxUploaded : image.ty = m * image.oy

\* An upload that is no multiple of the original on either axis was given a
\* target of twice the original.
C12_Witness ==
    /\ image.pc = "sized"
    /\ image.x % image.ox # 0 /\ image.y % image.oy # 0
    /\ image.ox > 1 /\ image.oy > 1
    /\ image.tx = 2 * image.ox /\ image.ty = 2 * image.oy

\* The scale-up ratios x/ox and y/oy of the upload differ.
RatiosDiffer == image.x * image.oy # image.y * image.ox

C14_SameSizeIsKept ==
    (image.pc \in {"sized", "converted", "raised"}
        /\ image.x = image.ox /\ image.y = image.oy)
    => image.tx = image.ox /\ image.ty = image.oy

\* An upload of the size of a non-square original was sized and resized.
C14_Witness ==
    /\ image.pc = "converted"
    /\ image.x = image.ox /\ image.y = image.oy
    /\ image.ox > 1 /\ image.oy > image.ox
    /\ image.tx = image.ox /\ image.ty = image.oy

\* The target size computed for the upload has a side of zero.
ZeroMultiple(upload, path) ==
    /\ upload \in {"image", "image_small"}
    /\ LET t == target_size(original_size(path)[1], original_size(path)[2],
                            uploaded_size(upload)[1], uploaded_size(upload)[2])
       IN t[1] = 0 \/ t[2] = 0

\* C15: an image submission whose computed multiple is zero on an axis is
\* rejected: the save step answers with the failure, writes nothing to
\* new_assets, keeps the original file and the assignment record, and the
\* process goes on (the handler ends, the other handlers stay).
C15_ZeroMultipleIsRejected ==
    [][(last'.op = "save" /\ ZeroMultiple(last'.upload, last'.path))
        => /\ last'.result = "failed"
           /\ UNCHANGED <<assigned_files, original_assets, new_assets,
                          manager_message, claims, delivered>>
           /\ \E h \in BagToSet(submits) :
                 /\ h.pc = "saving" /\ h.user = last'.user /\ h.path = last'.path
                 /\ submits' = Ended(submits, h)]_vars

\* A too small image for a texture the user holds was rejected: the record
\* and the original are there, no replacement is.
C15_Witness ==
    /\ last.op = "save" /\ last.result = "failed"
    /\ ZeroMultiple(last.upload, last.path)
    /\ [user_id |-> last.user, file_path |-> last.path] \in assigned_files
    /\ original_assets[last.path] = "file"
    /\ new_assets[last.path] = "absent"

\* C16: when a user who holds the record of an asset A, not yet replaced,
\* is assigned another asset B, the record of A is overwritten: after the
\* step the user's record references B, no record references A, and A's
\* original is still in original_assets with nothing in new_assets.
C16_SecondClaimOverwritesFirst ==
    [][\A A \in Paths :
         (/\ last'.op = "claim" /\ last'.result = "assigned"
          /\ [user_id |-> last'.user, file_path |-> A] \in assigned_files
          /\ original_assets[A] = "file" /\ new_assets[A] = "absent")
         => /\ last'.path # A
            /\ {r \in assigned_files' : r.user_id = last'.user}
                 = {[user_id |-> last'.user, file_path |-> last'.path]}
            /\ select_user_id(assigned_files', A) = NoUser
            /\ original_assets'[A] = "file" /\ new_assets'[A] = "absent"]_vars

\* The user was sent A, then claimed and was sent B: the record is on B, none
\* is on A, and A is still the original.
C16_Witness ==
    /\ last.op = "deliver" /\ last.result = "sent"
    /\ {r \in assigned_files : r.user_id = last.user}
         = {[user_id |-> last.user, file_path |-> last.path]}
    /\ \E A \in delivered[last.user] \ {last.path} :
          /\ select_user_id(assigned_files, A) = NoUser
          /\ original_assets[A] = "file" /\ new_assets[A] = "absent"
          /\ \A h \in BagToSet(submits) : h.path # A

\* The pack is completed and its archive was assembled.
Completed ==
    manager_message.content = "Resource pack ready." /\ manager_message.archives >= 1

\* C17: a pack of distributable assets only, with volunteers who keep
\* claiming and submitting valid replacements, deliveries that succeed and a
\* fair scheduling, is eventually completed with its archive assembled; and
\* as long as an asset of the pack has no replacement in new_assets, the pack
\* is not completed and no archive exists.
C17_FairPackCompletes ==
    /\ <>Completed
    /\ []((\E p \in pack : new_assets[p] # "file" \/ original_assets[p] = "file")
            => (manager_message.content # "Resource pack ready."
                /\ manager_message.archives = 0))

\* A pack of two assets, submitted by two different users, was completed by
\* the submission of the second asset.
C17_Witness ==
    /\ Completed
    /\ last.op = "complete" /\ last.result = "archive"
    /\ Cardinality(pack) = 2
    /\ \A p \in pack : new_assets[p] = "file" /\ original_assets[p] = "absent"
    /\ \A u \in Users : delivered[u] # {}

\* C18: the release at the end of an accepted submission by user U for path
\* P removes no assignment record other than U's own record of P, whatever
\* claim requests ran between the ownership check and the release.
C18_ReleaseRemovesOwnRecordOnly ==
    [][last'.op = "finish"
        => assigned_files \ assigned_files'
             \subseteq {[user_id |-> last'.user, file_path |-> last'.path]}]_vars

\* C19: the archive of a pack is assembled at most once, whatever the
\* interleaving of the submissions.
C19_ArchiveAssembledOnce == manager_message.archives <= 1

\* C20: once the bundle is extracted, every asset path of the pack has a
\* file in original_assets or a file in new_assets, in every state, the
\* states between the steps of a submission and after a crash included.
C20_NoAssetLost ==
    provision.pc \in {"extracted", "created"}
    => \A p \in pack : original_assets[p] = "file" \/ new_assets[p] = "file"

\* A submission has unlinked its original, whose replacement is in
\* new_assets, while another asset of the pack is still the original.
C20_Witness ==
    /\ last.op = "finish"
    /\ original_assets[last.path] = "absent" /\ new_assets[last.path] = "file"
    /\ \E q \in pack : original_assets[q] = "file" /\ new_assets[q] = "absent"

=============================================================================
